---- MODULE Spec2Model ----
(***************************************************************************)
(* FirAgent: the FIR record store (DatabaseStorage over the firs and       *)
(* status_updates tables) and the HTTP handlers that write to it.          *)
(*                                                                         *)
(* Every database statement is one step.  A handler that issues several    *)
(* statements is a sequence of steps of one request slot; the statements   *)
(* of different requests interleave, and a statement may fail (the store   *)
(* is unreachable), in which case the handler's catch block replies 500.   *)
(* A slot keeps its request until the reply has been sent.                 *)
(* The code opens no transaction, so earlier statements of a failed        *)
(* handler stay committed.                                                 *)
(*                                                                         *)
(* Columns that no handler modelled here reads or branches on (crime,      *)
(* summary, ipcSections, priority, updatedAt, ...) are not represented.    *)
(***************************************************************************)
EXTENDS Integers, Sequences, FiniteSets, TLC

\* ---------------------------------------------------------------- bounds
MaxFirs == 1          \* rows of the firs table
MaxUpdates == 3       \* rows of the status_updates table
MaxTime == 1          \* the clock reads 0..MaxTime
NumSlots == 2         \* requests that can be in flight together

\* ------------------------------------------------------------ value sets
FirIds == {"F1", "F2"}
Statuses == {"REGISTERED", "CLOSED"}
Unset == "unset"                 \* a field the payload leaves out
NoFirId == "none"
NoTime == -1                     \* SQL NULL in a timestamp column
Absent == -2                     \* a timestamp field the payload leaves out
Reporter == 1                    \* the civilian who reports the FIRs
Civilian == 2                    \* another civilian
Admin == 3
Callers == {Reporter, Civilian, Admin}  \* req.user of a request that passed ensureAuthenticated
Anonymous == 0                   \* a request without a session: req.user is undefined
AnyCaller == Callers \cup {Anonymous}
Times == 0..MaxTime
Slots == 1..NumSlots

VARIABLES firs, statusUpdates, now, req, overlap, extraction, query,
          notifications, mem, chat

vars == <<firs, statusUpdates, now, req, overlap, extraction, query,
          notifications, mem, chat>>

\* ------------------------------------------------------------ the tables
\* shared/schema.ts firs: id is the position in the sequence (serial).
\* Every FIR is reported by Reporter (user_id) and has no assigned officer.
NoFir == [firId |-> NoFirId, status |-> "none",
          createdAt |-> NoTime, closedAt |-> NoTime]

FirRows(f) == {i \in DOMAIN firs : firs[i].firId = f}

\* DatabaseStorage.getFir: the row with that fir_id, or undefined.
getFir(f) ==
  IF FirRows(f) = {} THEN NoFir ELSE firs[CHOOSE i \in FirRows(f) : TRUE]

\* status_updates rows of one FIR, by serial id.
UpdateIds_None(f) == {}

UpdateIds(f) == {k \in DOMAIN statusUpdates : statusUpdates[k].firId = f}

\* DatabaseStorage.getStatusUpdates: ORDER BY timestamp and nothing else, so
\* rows with equal timestamps come back in an order the database chooses.
\* The operator is the set of all results the query can return.
getStatusUpdates(f) ==
  LET ids == UpdateIds(f)
      n == Cardinality(ids)
      orders == {o \in [1..n -> ids] :
                   /\ \A a, b \in 1..n : a # b => o[a] # o[b]
                   /\ \A a, b \in 1..n : a < b =>
                        statusUpdates[o[a]].timestamp <= statusUpdates[o[b]].timestamp}
  IN {[a \in 1..n |-> [id |-> o[a],
                       firId |-> statusUpdates[o[a]].firId,
                       status |-> statusUpdates[o[a]].status,
                       timestamp |-> statusUpdates[o[a]].timestamp]] : o \in orders}

\* createFir storing the payload's status as it is, with no default.
DefaultStatus_NoDefault(s) == s

\* createFir: status: insertFir.status || "REGISTERED"
DefaultStatus(s) == IF s = Unset THEN "REGISTERED" ELSE s

\* updateFirStatus: ...(status === 'CLOSED' ? { closedAt: new Date() } : {})
ClosedAtAfter(row, s, t) == IF s = "CLOSED" THEN t ELSE row.closedAt

\* The foreign key status_updates.fir_id -> firs.fir_id.
FkHolds(f) == FirRows(f) # {}

\* DatabaseStorage.createStatusUpdate: the inserted row; timestamp defaultNow().
StatusRow(f, s) == [firId |-> f, status |-> s, timestamp |-> now]

\* ------------------------------------------------------- request slots
NoUpdates == [firId |-> Unset, status |-> Unset, createdAt |-> Absent, closedAt |-> Absent]

NoReply == [status |-> 0, message |-> ""]

\* pc: the statement the handler runs next; route, firId, status, updates: the
\* request; row, ret: the FIR row a statement returned; before, rowsBefore:
\* the FIR and the number of its status updates when the request arrived;
\* reply, cause: what the handler sent and why.
Idle == [pc |-> "idle", route |-> "none", caller |-> Anonymous,
         firId |-> NoFirId, status |-> Unset,
         updates |-> NoUpdates, row |-> 0, ret |-> NoFir,
         before |-> NoFir, rowsBefore |-> 0,
         reply |-> NoReply, cause |-> "none"]

\* What a handler's catch block sends.
CatchReply(route) ==
  [status |-> 500,
   message |-> CASE route = "POST /api/firs" -> "Failed to create FIR"
                 [] route = "PATCH /api/firs/:firId/status" -> "Failed to update FIR status"
                 [] route = "POST /api/firs/:firId/status-updates" -> "Failed to create status update"
                 [] OTHER -> "Failed to update FIR"]

\* res.status(code).json(fir): the slot holds the request and the reply
\* until the reply is sent.
Finished(r, code, message, cause) ==
  [Idle EXCEPT !.pc = "replied", !.route = r.route, !.firId = r.firId,
               !.status = r.status, !.ret = r.ret,
               !.reply = [status |-> code, message |-> message], !.cause = cause]

\* return res.status(code).json({message}): an early return of a handler.
Refused(route, code, message, cause) ==
  [Idle EXCEPT !.pc = "replied", !.route = route,
               !.reply = [status |-> code, message |-> message], !.cause = cause]

\* A statement threw: the catch block replies.
Thrown(route, cause) ==
  [Idle EXCEPT !.pc = "replied", !.route = route,
               !.reply = CatchReply(route), !.cause = cause]

\* A request as it arrives: route, target and the state it found.
Arrived(route, f, s) ==
  [Idle EXCEPT !.route = route, !.firId = f, !.status = s,
               !.before = getFir(f),
               !.rowsBefore = Cardinality(UpdateIds(f))]

\* status_updates rows the slot's handler has still to insert.
Reserved(p) ==
  CASE req[p].pc = "createFir_genesis" -> 1
    [] req[p].pc = "statusUpdates_create" -> 2
    [] req[p].pc = "updateFirStatus_update" -> 1
    [] req[p].pc = "updateFirStatus_append" -> 1
    [] OTHER -> 0

RECURSIVE SumReserved(_)
SumReserved(S) ==
  IF S = {} THEN 0
  ELSE LET p == CHOOSE q \in S : TRUE IN Reserved(p) + SumReserved(S \ {p})

Room(n) == Len(statusUpdates) + SumReserved(Slots) + n <= MaxUpdates

\* No query call is being answered.
NoQuery == [op |-> "none"]

AllIdle == \A p \in Slots : req[p] = Idle

\* A request takes the lowest free slot; with overlap off (one caller, who
\* waits for each reply) only when no other request is in flight and no
\* query is being answered.
CanStart(p) ==
  /\ req[p] = Idle
  /\ \A q \in Slots : q < p => req[q] # Idle
  /\ overlap \/ (AllIdle /\ query = NoQuery)

Empty ==
  /\ firs = << >>
  /\ statusUpdates = << >>
  /\ now = 0
  /\ req = [p \in Slots |-> Idle]

\* let response: not assigned yet, so spreading it adds no field.
NoResponse == [crime |-> "undefined", summary |-> "undefined",
               ipcSections |-> [type |-> "undefined", items |-> << >>],
               priority |-> [type |-> "undefined", halves |-> 0],
               dateTime |-> "undefined"]

NoBody == [fields |-> NoResponse, firId |-> NoFirId]

\* No extraction request is being served.  events lists what the handler
\* has done for the request: "call" (generateContent) and "delay" (the
\* one-second timer).
NoExtraction == [pc |-> "idle", attempts |-> 0, events |-> << >>,
                 response |-> NoResponse, reply |-> NoReply, body |-> NoBody]

\* The notifications table without rows.
NoNotifications == << >>

\* new MemStorage(): empty maps, both id counters at 1.
EmptyMem == [firs |-> << >>, statusUpdates |-> << >>,
             firCurrentId |-> 1, statusUpdateCurrentId |-> 1]

\* The chat component as mounted: useState(false), useState(null) (0 here),
\* an empty input; no request in flight, none sent, no FIR created.
NoChat == [isProcessing |-> FALSE, geminiResponse |-> 0, userInput |-> FALSE,
           inFlight |-> {}, sent |-> 0, created |-> << >>]

Quiet ==
  /\ extraction = NoExtraction
  /\ query = NoQuery
  /\ notifications = NoNotifications
  /\ mem = EmptyMem
  /\ chat = NoChat

Init == Empty /\ overlap = TRUE /\ Quiet

InitSeq == Empty /\ overlap = FALSE /\ Quiet

\* The clock advances between statements, or does not.
Tick ==
  /\ now < MaxTime
  /\ now' = now + 1
  /\ UNCHANGED <<firs, statusUpdates, req, overlap, extraction, query,
               notifications, mem, chat>>

\* ------------------------------------------------ POST /api/firs (createFir)
\* insertFirSchema.safeParse, then DatabaseStorage.createFir's INSERT into
\* firs (fir_id is unique; created_at defaultNow(); closed_at is not in the
\* insert schema).  The genesis status update is the next statement.
PostFir(p, valid, f, s) ==
  /\ CanStart(p)
  /\ LET r == Arrived("POST /api/firs", f, s) IN
       IF ~valid THEN
         /\ req' = [req EXCEPT ![p] = Refused(r.route, 400, "Invalid FIR data", "invalid")]
         /\ UNCHANGED <<firs, statusUpdates, now, overlap, extraction, query,
               notifications, mem, chat>>
       ELSE IF FirRows(f) # {} THEN
         /\ req' = [req EXCEPT ![p] = Thrown(r.route, "conflict")]
         /\ UNCHANGED <<firs, statusUpdates, now, overlap, extraction, query,
               notifications, mem, chat>>
       ELSE
         /\ Len(firs) < MaxFirs
         /\ Room(1)
         /\ LET row == [firId |-> f, status |-> DefaultStatus(s),
                        createdAt |-> now, closedAt |-> NoTime] IN
              /\ firs' = Append(firs, row)
              /\ req' = [req EXCEPT ![p] =
                           [r EXCEPT !.pc = "createFir_genesis",
                                     !.row = Len(firs) + 1, !.ret = row]]
         /\ UNCHANGED <<statusUpdates, now, overlap, extraction, query,
               notifications, mem, chat>>

\* createFir's second statement: createStatusUpdate({firId, "REGISTERED"}),
\* then the handler replies 201 with the FIR the INSERT returned.
CreateFirGenesis(p) ==
  /\ req[p].pc = "createFir_genesis"
  /\ IF FkHolds(req[p].ret.firId) THEN
       /\ statusUpdates' = Append(statusUpdates, StatusRow(req[p].ret.firId, "REGISTERED"))
       /\ req' = [req EXCEPT ![p] = Finished(req[p], 201, "", "ok")]
     ELSE
       /\ req' = [req EXCEPT ![p] = Thrown(req[p].route, "foreignKey")]
       /\ UNCHANGED statusUpdates
  /\ UNCHANGED <<firs, now, overlap, extraction, query,
               notifications, mem, chat>>

\* ------------------------------ PATCH /api/firs/:firId/status (updateFirStatus)
\* updateFirStatus's UPDATE ... SET status, updatedAt, closedAt-if-CLOSED.
UpdatedStatusRow_ClosedIsFinal(row, s) ==
  IF row.status = "CLOSED" THEN row
  ELSE [row EXCEPT !.status = s, !.closedAt = ClosedAtAfter(row, s, now)]

UpdatedStatusRow(row, s) ==
  [row EXCEPT !.status = s, !.closedAt = ClosedAtAfter(row, s, now)]

PatchStatus(p, caller, f, s) ==
  /\ CanStart(p)
  /\ LET r == [Arrived("PATCH /api/firs/:firId/status", f, s)
                EXCEPT !.caller = caller] IN
       IF s = Unset THEN
         /\ req' = [req EXCEPT ![p] = Refused(r.route, 400, "Status is required", "invalid")]
         /\ UNCHANGED <<firs, statusUpdates, now, overlap, extraction, query,
               notifications, mem, chat>>
       ELSE IF FirRows(f) = {} THEN
         /\ req' = [req EXCEPT ![p] = Refused(r.route, 404, "FIR not found", "notFound")]
         /\ UNCHANGED <<firs, statusUpdates, now, overlap, extraction, query,
               notifications, mem, chat>>
       ELSE
         /\ Room(1)
         /\ LET i == CHOOSE j \in FirRows(f) : TRUE
                row == UpdatedStatusRow(firs[i], s) IN
              /\ firs' = [firs EXCEPT ![i] = row]
              /\ req' = [req EXCEPT ![p] =
                           [r EXCEPT !.pc = "updateFirStatus_append",
                                     !.row = i, !.ret = row]]
         /\ UNCHANGED <<statusUpdates, now, overlap, extraction, query,
               notifications, mem, chat>>

\* updateFirStatus's second statement: createStatusUpdate({firId, status}).
\* PATCH .../status then replies 200 with the FIR, POST .../status-updates
\* replies 201.
UpdateFirStatusAppend(p) ==
  /\ req[p].pc = "updateFirStatus_append"
  /\ IF FkHolds(req[p].ret.firId) THEN
       /\ statusUpdates' = Append(statusUpdates, StatusRow(req[p].ret.firId, req[p].status))
       /\ req' = [req EXCEPT ![p] =
                    Finished(req[p],
                             IF req[p].route = "PATCH /api/firs/:firId/status" THEN 200 ELSE 201,
                             "", "ok")]
     ELSE
       /\ req' = [req EXCEPT ![p] = Thrown(req[p].route, "foreignKey")]
       /\ UNCHANGED statusUpdates
  /\ UNCHANGED <<firs, now, overlap, extraction, query,
               notifications, mem, chat>>

\* --------------------------------------- POST /api/firs/:firId/status-updates
\* insertStatusUpdateSchema.safeParse, getFir, createStatusUpdate, and then
\* updateFirStatus (whose result the handler does not look at).
PostStatusUpdate(p, caller, f, s) ==
  /\ CanStart(p)
  /\ LET r == [Arrived("POST /api/firs/:firId/status-updates", f, s)
                EXCEPT !.caller = caller] IN
       IF s = Unset THEN
         /\ req' = [req EXCEPT ![p] = Refused(r.route, 400, "Invalid status update data", "invalid")]
         /\ UNCHANGED <<firs, statusUpdates, now, overlap, extraction, query,
               notifications, mem, chat>>
       ELSE IF FirRows(f) = {} THEN
         /\ req' = [req EXCEPT ![p] = Refused(r.route, 404, "FIR not found", "notFound")]
         /\ UNCHANGED <<firs, statusUpdates, now, overlap, extraction, query,
               notifications, mem, chat>>
       ELSE
         /\ Room(2)
         /\ req' = [req EXCEPT ![p] =
                      [r EXCEPT !.pc = "statusUpdates_create",
                                !.row = CHOOSE j \in FirRows(f) : TRUE]]
         /\ UNCHANGED <<firs, statusUpdates, now, overlap, extraction, query,
               notifications, mem, chat>>

StatusUpdatesCreate(p) ==
  /\ req[p].pc = "statusUpdates_create"
  /\ IF FkHolds(req[p].firId) THEN
       /\ statusUpdates' = Append(statusUpdates, StatusRow(req[p].firId, req[p].status))
       /\ req' = [req EXCEPT ![p].pc = "updateFirStatus_update"]
     ELSE
       /\ req' = [req EXCEPT ![p] = Thrown(req[p].route, "foreignKey")]
       /\ UNCHANGED statusUpdates
  /\ UNCHANGED <<firs, now, overlap, extraction, query,
               notifications, mem, chat>>

StatusUpdatesUpdate(p) ==
  /\ req[p].pc = "updateFirStatus_update"
  /\ IF FirRows(req[p].firId) = {} THEN
       /\ req' = [req EXCEPT ![p] = Finished(req[p], 201, "", "ok")]
       /\ UNCHANGED firs
     ELSE
       LET i == CHOOSE j \in FirRows(req[p].firId) : TRUE
           row == UpdatedStatusRow(firs[i], req[p].status) IN
         /\ firs' = [firs EXCEPT ![i] = row]
         /\ req' = [req EXCEPT ![p].pc = "updateFirStatus_append",
                               ![p].row = i, ![p].ret = row]
  /\ UNCHANGED <<statusUpdates, now, overlap, extraction, query,
               notifications, mem, chat>>

\* -------------------------------------------- PATCH /api/firs/:firId (updateFir)
\* req.body, handed to updateFir as Partial<Fir>: nothing, or one of the
\* modelled columns; a timestamp column is given a time or null.
UpdatePayloads ==
  {NoUpdates}
    \cup {[NoUpdates EXCEPT !.firId = f] : f \in FirIds}
    \cup {[NoUpdates EXCEPT !.status = s] : s \in Statuses}
    \cup {[NoUpdates EXCEPT !.createdAt = t] : t \in Times \cup {NoTime}}
    \cup {[NoUpdates EXCEPT !.closedAt = t] : t \in Times \cup {NoTime}}

\* The payload gives a timestamp column a value other than null.  The body
\* arrives as JSON, so the value is a date string where the column's encoder
\* expects a Date: the statement throws or writes the time, depending on the
\* driver.
NamesTime(u) == u.createdAt \in Times \/ u.closedAt \in Times

Role(caller) == IF caller = Admin THEN "admin" ELSE "civilian"

\* The handler's check: creator, assigned officer or admin.  user_id is
\* Reporter and officer_id is NULL in every row here.
MayUpdate(fir, caller) == caller = Reporter \/ Role(caller) = "admin"

\* updateFir's .set({...updates, updatedAt: new Date()}).
Merged(row, u) ==
  [firId |-> IF u.firId = Unset THEN row.firId ELSE u.firId,
   status |-> IF u.status = Unset THEN row.status ELSE u.status,
   createdAt |-> IF u.createdAt = Absent THEN row.createdAt ELSE u.createdAt,
   closedAt |-> IF u.closedAt = Absent THEN row.closedAt ELSE u.closedAt]

\* The handler runs behind ensureAuthenticated: caller is the logged-in user.
PatchFir(p, caller, f, u) ==
  /\ CanStart(p)
  /\ LET r == [Arrived("PATCH /api/firs/:firId", f, u.status)
                EXCEPT !.updates = u, !.caller = caller] IN
       IF FirRows(f) = {} THEN
         /\ req' = [req EXCEPT ![p] = Refused(r.route, 404, "FIR not found", "notFound")]
       ELSE IF ~MayUpdate(getFir(f), caller) THEN
         /\ req' = [req EXCEPT ![p] = Refused(r.route, 403, "Access denied", "denied")]
       ELSE
         /\ req' = [req EXCEPT ![p] =
                      [r EXCEPT !.pc = "updateFir_update",
                                !.row = CHOOSE j \in FirRows(f) : TRUE]]
  /\ UNCHANGED <<firs, statusUpdates, now, overlap, extraction, query,
               notifications, mem, chat>>

\* updateFir's UPDATE ... WHERE fir_id = firId RETURNING.  A new fir_id must
\* be unused (unique) and the old one unreferenced by status_updates (the
\* foreign key has no ON UPDATE action); created_at is NOT NULL.
UpdateFirUpdate(p, encodes) ==
  /\ req[p].pc = "updateFir_update"
  /\ LET f == req[p].firId
         u == req[p].updates IN
       IF NamesTime(u) /\ ~encodes THEN
         /\ req' = [req EXCEPT ![p] = Thrown(req[p].route, "encode")]
         /\ UNCHANGED firs
       ELSE IF FirRows(f) = {} THEN
         /\ req' = [req EXCEPT ![p] = Finished(req[p], 200, "", "ok")]
         /\ UNCHANGED firs
       ELSE
         LET i == CHOOSE j \in FirRows(f) : TRUE
             row == Merged(firs[i], u) IN
           IF row.createdAt = NoTime THEN
             /\ req' = [req EXCEPT ![p] = Thrown(req[p].route, "notNull")]
             /\ UNCHANGED firs
           ELSE IF row.firId # f /\ FirRows(row.firId) # {} THEN
             /\ req' = [req EXCEPT ![p] = Thrown(req[p].route, "unique")]
             /\ UNCHANGED firs
           ELSE IF row.firId # f /\ UpdateIds(f) # {} THEN
             /\ req' = [req EXCEPT ![p] = Thrown(req[p].route, "foreignKey")]
             /\ UNCHANGED firs
           ELSE
             /\ firs' = [firs EXCEPT ![i] = row]
             /\ req' = [req EXCEPT ![p] =
                          Finished([req[p] EXCEPT !.ret = row], 200, "", "ok")]
  /\ UNCHANGED <<statusUpdates, now, overlap, extraction, query,
               notifications, mem, chat>>

\* --------------------------------------------------------- store failures
Routes == {"POST /api/firs", "PATCH /api/firs/:firId/status",
           "POST /api/firs/:firId/status-updates", "PATCH /api/firs/:firId"}

\* The first statement of a handler fails: nothing was written.
FirstStatementFails(p, route) ==
  /\ CanStart(p)
  /\ req' = [req EXCEPT ![p] = Thrown(route, "storeFailure")]
  /\ UNCHANGED <<firs, statusUpdates, now, overlap, extraction, query,
               notifications, mem, chat>>

\* A later statement of a handler fails: the catch block replies, and what
\* the earlier statements wrote stays.
StatementFails(p) ==
  /\ req[p].pc \notin {"idle", "replied"}
  /\ req' = [req EXCEPT ![p] = Thrown(req[p].route, "storeFailure")]
  /\ UNCHANGED <<firs, statusUpdates, now, overlap, extraction, query,
               notifications, mem, chat>>

\* The reply has been sent; the slot is free again.
Respond(p) ==
  /\ req[p].pc = "replied"
  /\ req' = [req EXCEPT ![p] = Idle]
  /\ UNCHANGED <<firs, statusUpdates, now, overlap, extraction, query,
               notifications, mem, chat>>

\* ----------------------------------------------------------- specification
Start(p) ==
  \/ \E valid \in BOOLEAN, f \in FirIds, s \in Statuses \cup {Unset} :
        PostFir(p, valid, f, s)
  \/ \E caller \in AnyCaller, f \in FirIds, s \in Statuses \cup {Unset} :
        PatchStatus(p, caller, f, s)
  \/ \E caller \in AnyCaller, f \in FirIds, s \in Statuses \cup {Unset} :
        PostStatusUpdate(p, caller, f, s)
  \/ \E caller \in Callers, f \in FirIds, u \in UpdatePayloads : PatchFir(p, caller, f, u)
  \/ \E route \in Routes : FirstStatementFails(p, route)

Continue(p) ==
  \/ CreateFirGenesis(p)
  \/ UpdateFirStatusAppend(p)
  \/ StatusUpdatesCreate(p)
  \/ StatusUpdatesUpdate(p)
  \/ \E encodes \in BOOLEAN : UpdateFirUpdate(p, encodes)
  \/ StatementFails(p)
  \/ Respond(p)

Next == Tick \/ \E p \in Slots : Start(p) \/ Continue(p)

\* Requests overlap freely.
Spec == Init /\ [][Next]_vars

\* One caller: a request starts only when no other is in flight.
SpecSeq == InitSeq /\ [][Next]_vars

TypeOK ==
  /\ Len(firs) <= MaxFirs
  /\ Len(statusUpdates) <= MaxUpdates
  /\ now \in Times
  /\ \A i \in DOMAIN firs : firs[i].firId \in FirIds
  /\ \A k \in DOMAIN statusUpdates : FkHolds(statusUpdates[k].firId)

\* ------------------------------------------------- POST /api/gemini/process
\* A value the model's JSON gives a field is represented by its JSON type; a
\* number by twice its value, so that halves are numbers too.
MaxAttempts == 3

JsonTypes == {"string", "number", "undefined"}

IpcValues ==
  {[type |-> "array", items |-> its] : its \in {<< >>, <<"string">>, <<"number">>}}
    \cup {[type |-> "undefined", items |-> << >>]}

PriorityHalves == {1, 2, 5, 10, 11}      \* 0.5, 1, 2.5, 5, 5.5

PriorityValues ==
  {[type |-> "number", halves |-> h] : h \in PriorityHalves}
    \cup {[type |-> "string", halves |-> 0]}

\* What JSON.parse can return for the matched {...} block.
Responses ==
  [crime : {"string", "undefined"}, summary : {"string", "undefined"},
   ipcSections : IpcValues, priority : PriorityValues,
   dateTime : JsonTypes]

\* geminiResponseSchema: crime z.string(), ipcSections z.array(z.string()),
\* summary z.string(), priority z.number().min(1).max(5), dateTime
\* z.string().optional() (location is like dateTime and left out).
geminiResponseSchema(r) ==
  /\ r.crime = "string"
  /\ r.ipcSections.type = "array"
  /\ \A i \in DOMAIN r.ipcSections.items : r.ipcSections.items[i] = "string"
  /\ r.summary = "string"
  /\ r.priority.type = "number"
  /\ r.priority.halves >= 2 * 1
  /\ r.priority.halves <= 2 * 5
  /\ r.dateTime \in {"string", "undefined"}

\* One attempt's outcome: generateContent throws, the text holds no {...}
\* block, JSON.parse throws, or JSON.parse returns an object.
Outcomes ==
  {[kind |-> k, value |-> NoResponse] : k \in {"callError", "noJson", "badJson"}}
    \cup {[kind |-> "json", value |-> r] : r \in Responses}

\* attempts++ with the counter never moving.
NextAttempt_Stuck(a) == a

\* attempts++
NextAttempt(a) == a + 1

\* The branches' test with the comparison never true.
Exhausted_Never(a) == FALSE

\* if (attempts >= maxAttempts) in both failure branches.
Exhausted(a) == a >= MaxAttempts

\* while (attempts < maxAttempts): the next attempt, or the code after the loop.
LoopTest(a) == IF a < MaxAttempts THEN "attempt" ELSE "respond"

\* shared/utils generateFirId: FIR-yyyyMMdd-XXX, XXX a random number 100..999.
\* Math.random() returns k / RandomGrain for some k in 0 .. RandomGrain - 1,
\* a value in [0, 1).
RandomGrain == 1000

Randoms == 0..(RandomGrain - 1)

randomNum_NoOffset(k) == (k * 900) \div RandomGrain

\* Math.floor(Math.random() * 900) + 100
randomNum(k) == (k * 900) \div RandomGrain + 100

Digit(d) == SubSeq("0123456789", d + 1, d + 1)

\* A non-negative number in a template literal: its decimal digits.
RECURSIVE toDecimal(_)
toDecimal(n) ==
  IF n < 10 THEN Digit(n) ELSE toDecimal(n \div 10) \o Digit(n % 10)

\* date-fns pads a formatted field with leading zeros up to its width.
RECURSIVE addLeadingZeros(_, _)
addLeadingZeros(str, width) ==
  IF Len(str) >= width THEN str ELSE addLeadingZeros("0" \o str, width)

\* format(new Date(), "yyyyMMdd")
format(day) ==
  addLeadingZeros(toDecimal(day.year), 4)
    \o addLeadingZeros(toDecimal(day.month), 2)
    \o addLeadingZeros(toDecimal(day.date), 2)

\* Days new Date() can fall on.
Days == {[year |-> 2024, month |-> 1, date |-> 5],
         [year |-> 2024, month |-> 12, date |-> 31],
         [year |-> 2025, month |-> 10, date |-> 9]}

\* The ends of the range of Math.random().
RandomEnds == {0, RandomGrain - 1}

generateFirId(day, k) ==
  "FIR-" \o format(day) \o "-" \o toDecimal(randomNum(k))

ExtractionReply(code, message) ==
  [extraction EXCEPT !.pc = "replied",
                     !.reply = [status |-> code, message |-> message]]

\* The handler's input check, then the loop is entered.
ProcessStart(hasInput) ==
  /\ extraction.pc = "idle"
  /\ extraction' =
       IF ~hasInput THEN ExtractionReply(400, "User input is required")
       ELSE [extraction EXCEPT !.pc = LoopTest(0)]
  /\ UNCHANGED <<firs, statusUpdates, now, req, overlap, query,
               notifications, mem, chat>>

\* One pass of the loop body up to continue, break, return or the timer.
Attempt(outcome) ==
  /\ extraction.pc = "attempt"
  /\ LET a == NextAttempt(extraction.attempts)
         called == [extraction EXCEPT !.attempts = a,
                                      !.events = Append(@, "call")] IN
       extraction' =
         IF outcome.kind = "noJson" THEN
           IF Exhausted(a)
           THEN [called EXCEPT !.pc = "replied",
                               !.reply = [status |-> 500,
                                          message |-> "Failed to parse Gemini response after multiple attempts"]]
           ELSE [called EXCEPT !.pc = LoopTest(a)]
         ELSE IF outcome.kind = "json" /\ geminiResponseSchema(outcome.value) THEN
           [called EXCEPT !.response = outcome.value, !.pc = "respond"]
         ELSE
           IF Exhausted(a)
           THEN [called EXCEPT !.pc = "replied",
                               !.reply = [status |-> 500,
                                          message |-> "Failed to process with Gemini after multiple attempts"]]
           ELSE [called EXCEPT !.pc = "delay"]
  /\ UNCHANGED <<firs, statusUpdates, now, req, overlap, query,
               notifications, mem, chat>>

\* await new Promise(resolve => setTimeout(resolve, 1000)), then the loop test.
Delay ==
  /\ extraction.pc = "delay"
  /\ extraction' = [extraction EXCEPT !.events = Append(@, "delay"),
                                      !.pc = LoopTest(extraction.attempts)]
  /\ UNCHANGED <<firs, statusUpdates, now, req, overlap, query,
               notifications, mem, chat>>

\* After the loop: res.json({...response, firId}).
SendResult(day, k) ==
  /\ extraction.pc = "respond"
  /\ extraction' = [extraction EXCEPT
                      !.pc = "replied",
                      !.reply = [status |-> 200, message |-> ""],
                      !.body = [fields |-> extraction.response,
                                firId |-> generateFirId(day, k)]]
  /\ UNCHANGED <<firs, statusUpdates, now, req, overlap, query,
               notifications, mem, chat>>

\* The reply is out; the next request can come.
ExtractionDone ==
  /\ extraction.pc = "replied"
  /\ extraction' = NoExtraction
  /\ UNCHANGED <<firs, statusUpdates, now, req, overlap, query,
               notifications, mem, chat>>

NextExtract ==
  \/ \E hasInput \in BOOLEAN : ProcessStart(hasInput)
  \/ \E outcome \in Outcomes : Attempt(outcome)
  \/ Delay
  \/ \E day \in Days, k \in RandomEnds : SendResult(day, k)
  \/ ExtractionDone

\* The extraction endpoint alone, over an empty store.
SpecExtract == InitSeq /\ [][NextExtract]_vars

\* generateFirId() called on any day with any value of Math.random().
GenerateFirId(day, k) ==
  /\ AllIdle /\ query = NoQuery
  /\ query' = [op |-> "generateFirId", firId |-> generateFirId(day, k)]
  /\ UNCHANGED <<firs, statusUpdates, now, req, overlap, extraction,
               notifications, mem, chat>>

\* The caller has the id; the next call can come.
FirIdDone ==
  /\ query.op = "generateFirId"
  /\ query' = NoQuery
  /\ UNCHANGED <<firs, statusUpdates, now, req, overlap, extraction,
               notifications, mem, chat>>

NextFirId ==
  \/ \E day \in Days, k \in Randoms : GenerateFirId(day, k)
  \/ FirIdDone

SpecFirId == InitSeq /\ [][NextFirId]_vars

\* ------------------------------------------- responseText.match(/\{[\s\S]*\}/)
\* A response text is a sequence of characters, of which only the braces
\* matter: "x" stands for any other character.
MaxText == 4

Chars == {"{", "}", "x"}

Texts == UNION {[1..n -> Chars] : n \in 0..MaxText}

\* match returns null.
NoMatch == << >>

Opens(text) == {i \in DOMAIN text : text[i] = "{"}

Closes(text) == {i \in DOMAIN text : text[i] = "}"}

Min(S) == CHOOSE i \in S : \A j \in S : i <= j

Max(S) == CHOOSE i \in S : \A j \in S : i >= j

\* /\{[\s\S]*\}/: the match starts at the first "{" that a "}" follows, and
\* the greedy [\s\S]* takes it up to the last "}" of the text.
match(text) ==
  LET starts == {i \in Opens(text) : \E j \in Closes(text) : j > i} IN
    IF starts = {} THEN NoMatch
    ELSE SubSeq(text, Min(starts), Max(Closes(text)))

\* Open braces minus closing braces among the first n characters.
Depth(text, n) ==
  Cardinality({i \in Opens(text) : i <= n})
    - Cardinality({i \in Closes(text) : i <= n})

\* JSON.parse accepts the string: one object, i.e. the braces balance at
\* its last character and nowhere before it.
JsonParses(str) ==
  /\ Len(str) >= 2
  /\ str[1] = "{"
  /\ Depth(str, Len(str)) = 0
  /\ \A n \in 1..(Len(str) - 1) : Depth(str, n) > 0

\* const jsonMatch = responseText.match(..); JSON.parse(jsonMatch[0])
MatchJson(text) ==
  /\ AllIdle /\ query = NoQuery
  /\ query' = [op |-> "match", responseText |-> text,
                jsonMatch |-> match(text),
                parsed |-> JsonParses(match(text))]
  /\ UNCHANGED <<firs, statusUpdates, now, req, overlap, extraction,
               notifications, mem, chat>>

MatchDone ==
  /\ query.op = "match"
  /\ query' = NoQuery
  /\ UNCHANGED <<firs, statusUpdates, now, req, overlap, extraction,
               notifications, mem, chat>>

NextMatch ==
  \/ \E text \in Texts : MatchJson(text)
  \/ MatchDone

SpecMatch == InitSeq /\ [][NextMatch]_vars

\* ------------------------------------------------- search and analytics
\* Time is counted in ticks, the resolution of a timestamp column; a
\* JavaScript Date resolves TicksPerMs ticks.  The calendar is scaled down:
\* a day has MsPerDay milliseconds, every month DaysPerMonth days.
MaxPage == 2
MaxLimit == 2
MaxRows == 2

TicksPerMs == 2
MsPerDay == 1
DaysPerMonth == 2

TicksPerDay == MsPerDay * TicksPerMs

TicksPerMonth == DaysPerMonth * TicksPerDay

\* new Date(year, month, 1): the month's first instant (month from 0; 12 is
\* January of the next year).
MonthStart(year, month) == (year * 12 + month) * TicksPerMonth

\* new Date(year, month + 1, 0, 23, 59, 59, 999): the month's last millisecond.
MonthEnd(year, month) == MonthStart(year, month + 1) - TicksPerMs

\* The rows a query reads add the tags column to the store's rows.
TagSets == {{}, {"a"}, {"b"}}

RowIds == <<"F1", "F2", "F3">>

\* Tables for the search: any status and tags, created at tick 0 or 4, a
\* CLOSED row closed when it was created.
SearchRows(i) ==
  {[firId |-> RowIds[i], status |-> st, createdAt |-> t,
    closedAt |-> IF st = "CLOSED" THEN t ELSE NoTime, tags |-> tg] :
     st \in Statuses, t \in {0, 4}, tg \in TagSets}

\* Creation times around the ends of a month and of year 0.
StatTimes == {0, MonthEnd(0, 0), MonthEnd(0, 0) + 1,
              MonthEnd(0, 11) + 1, MonthStart(1, 0)}

\* Tables for the statistics: open, closed a day after creation, or closed
\* and opened again (closedAt is kept).
StatRows(i) ==
  {[firId |-> RowIds[i], status |-> c.status, createdAt |-> t,
    closedAt |-> IF c.closed THEN t + TicksPerDay ELSE NoTime, tags |-> {}] :
     t \in StatTimes,
     c \in {[status |-> "REGISTERED", closed |-> FALSE],
            [status |-> "CLOSED", closed |-> TRUE],
            [status |-> "REGISTERED", closed |-> TRUE]}}

RowsAt(kind, i) == IF kind = "search" THEN SearchRows(i) ELSE StatRows(i)

RECURSIVE TablesOf(_, _)
TablesOf(kind, n) ==
  IF n = 0 THEN {<< >>}
  ELSE {Append(t, r) : t \in TablesOf(kind, n - 1), r \in RowsAt(kind, n)}

Tables ==
  UNION {TablesOf("search", n) \cup TablesOf("stat", n) : n \in 0..MaxRows}

\* Every FIR of a table has its genesis status update.
GenesisRows(table) ==
  [i \in DOMAIN table |->
     [firId |-> table[i].firId, status |-> "REGISTERED",
      timestamp |-> table[i].createdAt]]

QueryNow == MonthStart(1, 0) + TicksPerMs

InitQuery ==
  /\ firs \in Tables
  /\ statusUpdates = GenesisRows(firs)
  /\ now = QueryNow
  /\ req = [p \in Slots |-> Idle]
  /\ overlap = FALSE
  /\ Quiet

\* SearchParams: status absent, one string or an array; tags absent or an
\* array; startDate and endDate absent or a date; page and limit.  query,
\* priority, location, ipcSection, userId, officerId and the sort options
\* are left absent.
StatusParams ==
  {[kind |-> "none", values |-> << >>],
   [kind |-> "string", values |-> <<"REGISTERED">>],
   [kind |-> "array", values |-> <<"CLOSED">>],
   [kind |-> "array", values |-> <<"REGISTERED", "CLOSED">>]}

TagParams == {<< >>, <<"a">>, <<"a", "b">>}

DateParams ==
  {[startDate |-> NoTime, endDate |-> NoTime],
   [startDate |-> 4, endDate |-> NoTime],
   [startDate |-> NoTime, endDate |-> 0]}

SearchParams ==
  {[status |-> st, tags |-> tg, startDate |-> d.startDate, endDate |-> d.endDate,
    page |-> pg, limit |-> lm] :
     st \in StatusParams, tg \in TagParams, d \in DateParams,
     pg \in 1..MaxPage, lm \in 1..MaxLimit}

Range(seq) == {seq[i] : i \in DOMAIN seq}

\* tags.join(',')
RECURSIVE Join(_)
Join(tags) ==
  IF Len(tags) = 0 THEN ""
  ELSE IF Len(tags) = 1 THEN tags[1]
  ELSE tags[1] \o "," \o Join(Tail(tags))

\* The WHERE clause with the status condition pushed whether or not a
\* status was given.
Satisfies_StatusRequired(row, params) ==
  /\ row.status \in Range(params.status.values)
  /\ params.startDate # NoTime => row.createdAt >= params.startDate
  /\ params.endDate # NoTime => row.createdAt <= params.endDate
  /\ Len(params.tags) > 0 => row.tags \cap {Join(params.tags)} # {}

\* The WHERE clause with the status condition never pushed.
Satisfies_NoStatus(row, params) ==
  /\ params.startDate # NoTime => row.createdAt >= params.startDate
  /\ params.endDate # NoTime => row.createdAt <= params.endDate
  /\ Len(params.tags) > 0 => row.tags \cap {Join(params.tags)} # {}

\* The WHERE clause searchFirs builds: the conditions pushed, joined by AND.
\* The tags condition is firs.tags && ARRAY[<the joined string>]::text[].
Satisfies(row, params) ==
  /\ params.status.kind # "none" => row.status \in Range(params.status.values)
  /\ params.startDate # NoTime => row.createdAt >= params.startDate
  /\ params.endDate # NoTime => row.createdAt <= params.endDate
  /\ Len(params.tags) > 0 => row.tags \cap {Join(params.tags)} # {}

Matches(params) == {i \in DOMAIN firs : Satisfies(firs[i], params)}

\* ORDER BY created_at DESC: every order of the matching rows the database
\* may produce.
Sorted(ids) ==
  LET n == Cardinality(ids) IN
    {o \in [1..n -> ids] :
       /\ \A a, b \in 1..n : a # b => o[a] # o[b]
       /\ \A a, b \in 1..n : a < b => firs[o[a]].createdAt >= firs[o[b]].createdAt}

\* LIMIT limit OFFSET (page - 1) * limit
PageOf(order, page, limit) ==
  LET offset == (page - 1) * limit
      last == IF Len(order) < offset + limit THEN Len(order) ELSE offset + limit IN
    [k \in 1..(IF last > offset THEN last - offset ELSE 0) |-> firs[order[offset + k]]]

\* searchFirs: the count query and then the page query.
CanQuery == AllIdle /\ query = NoQuery

SearchFirs(params) ==
  /\ CanQuery
  /\ \E order \in Sorted(Matches(params)) :
       query' = [op |-> "searchFirs", params |-> params,
                 total |-> Cardinality(Matches(params)),
                 firs |-> PageOf(order, params.page, params.limit)]
  /\ UNCHANGED <<firs, statusUpdates, now, req, overlap, extraction,
               notifications, mem, chat>>

\* getFirCount: SELECT count(*) FROM firs.
getFirCount == Len(firs)

GetFirCount ==
  /\ CanQuery
  /\ query' = [op |-> "getFirCount", count |-> getFirCount]
  /\ UNCHANGED <<firs, statusUpdates, now, req, overlap, extraction,
               notifications, mem, chat>>

\* gte(firs.createdAt, startDate), lte(firs.createdAt, endDate)
InWindow(row, startDate, endDate) ==
  row.createdAt >= startDate /\ row.createdAt <= endDate

\* getMonthlyStats: for month 0..11 one count query over the month's window.
getMonthlyStats(year) ==
  [m \in 1..12 |->
     [month |-> m,
      count |-> Cardinality({i \in DOMAIN firs :
                  InWindow(firs[i], MonthStart(year, m - 1), MonthEnd(year, m - 1))})]]

Years == {0, 1}

GetMonthlyStats(year) ==
  /\ CanQuery
  /\ query' = [op |-> "getMonthlyStats", year |-> year,
               result |-> getMonthlyStats(year)]
  /\ UNCHANGED <<firs, statusUpdates, now, req, overlap, extraction,
               notifications, mem, chat>>

\* The rows of the processing-time query: created in the window, status
\* CLOSED and closed_at not null.
ClosedInWindow(startDate, endDate) ==
  {i \in DOMAIN firs :
     /\ InWindow(firs[i], startDate, endDate)
     /\ firs[i].status = "CLOSED"
     /\ firs[i].closedAt # NoTime}

RECURSIVE TotalTicks(_)
TotalTicks(ids) ==
  IF ids = {} THEN 0
  ELSE LET i == CHOOSE j \in ids : TRUE IN
         (firs[i].closedAt - firs[i].createdAt) + TotalTicks(ids \ {i})

\* A number of days as a fraction; 0 / 0 is NaN.
Zero == [num |-> 0, den |-> 1]

\* The average taken without looking at the number of rows.
Average_Unguarded(ids) ==
  [num |-> TotalTicks(ids), den |-> Cardinality(ids) * TicksPerDay]

\* let avgProcessingTime = 0; if (processingTimes.length > 0) sum / length,
\* each processingTime being seconds / 86400.
Average(ids) ==
  IF Cardinality(ids) > 0
  THEN [num |-> TotalTicks(ids), den |-> Cardinality(ids) * TicksPerDay]
  ELSE Zero

\* Date arguments: full milliseconds.
Windows ==
  {w \in [startDate : {0, MonthStart(0, 11)}, endDate : {MonthEnd(0, 0), QueryNow}] :
     w.startDate <= w.endDate}

GetAnalyticsByTimeRange(w) ==
  /\ CanQuery
  /\ query' = [op |-> "getAnalyticsByTimeRange", window |-> w,
               totalFirs |-> Cardinality({i \in DOMAIN firs :
                               InWindow(firs[i], w.startDate, w.endDate)}),
               averageProcessingTimeDays |->
                 Average(ClosedInWindow(w.startDate, w.endDate))]
  /\ UNCHANGED <<firs, statusUpdates, now, req, overlap, extraction,
               notifications, mem, chat>>

\* The caller has the result.
QueryDone ==
  /\ query # NoQuery
  /\ query' = NoQuery
  /\ UNCHANGED <<firs, statusUpdates, now, req, overlap, extraction,
               notifications, mem, chat>>

\* Queries, and status changes between them.
NextQuery ==
  \/ \E params \in SearchParams : SearchFirs(params)
  \/ GetFirCount
  \/ \E year \in Years : GetMonthlyStats(year)
  \/ \E w \in Windows : GetAnalyticsByTimeRange(w)
  \/ QueryDone
  \/ \E p \in Slots, caller \in AnyCaller, f \in FirIds, s \in Statuses \cup {Unset} :
        PatchStatus(p, caller, f, s)
  \/ \E p \in Slots : UpdateFirStatusAppend(p)
  \/ \E p \in Slots : Respond(p)

SpecQuery == InitQuery /\ [][NextQuery]_vars

\* ------------------------------------------------------------ notifications
MaxNotifications == 2

Users == {Reporter, Civilian}

\* createNotification: INSERT with is_read and created_at at their defaults.
CreateNotification(userId) ==
  /\ AllIdle /\ query = NoQuery
  /\ Len(notifications) < MaxNotifications
  /\ notifications' = Append(notifications,
                             [id |-> Len(notifications) + 1, userId |-> userId,
                              isRead |-> FALSE, createdAt |-> now])
  /\ UNCHANGED <<firs, statusUpdates, now, req, overlap, extraction, query,
               mem, chat>>

\* markNotificationAsRead: UPDATE .. SET is_read = true WHERE id = id.
MarkNotificationAsRead(id) ==
  /\ AllIdle /\ query = NoQuery
  /\ notifications' = [k \in DOMAIN notifications |->
                         IF notifications[k].id = id
                         THEN [notifications[k] EXCEPT !.isRead = TRUE]
                         ELSE notifications[k]]
  /\ UNCHANGED <<firs, statusUpdates, now, req, overlap, extraction, query,
               mem, chat>>

\* markAllNotificationsAsRead: UPDATE .. SET is_read = true WHERE user_id = userId.
MarkAllNotificationsAsRead(userId) ==
  /\ AllIdle /\ query = NoQuery
  /\ notifications' = [k \in DOMAIN notifications |->
                         IF notifications[k].userId = userId
                         THEN [notifications[k] EXCEPT !.isRead = TRUE]
                         ELSE notifications[k]]
  /\ UNCHANGED <<firs, statusUpdates, now, req, overlap, extraction, query,
               mem, chat>>

\* db.select().from(notifications): a query without a condition.
SelectFrom == [where |-> [column |-> "none", value |-> 0]]

\* eq(column, value)
eq(column, value) == [column |-> column, value |-> value]

\* The builder's where(): it SETS the query's condition, so a second call
\* replaces what the first one set.
where(q, condition) == [q EXCEPT !.where = condition]

\* isRead as the value eq compares: 1 for true, 0 for false.
Holds(row, condition) ==
  CASE condition.column = "none" -> TRUE
    [] condition.column = "userId" -> row.userId = condition.value
    [] condition.column = "isRead" -> (IF row.isRead THEN 1 ELSE 0) = condition.value

\* The query getUserNotifications builds.
UserNotificationsQuery(userId, unreadOnly) ==
  LET query1 == where(SelectFrom, eq("userId", userId)) IN
    IF unreadOnly THEN where(query1, eq("isRead", 0)) ELSE query1

\* .orderBy(desc(notifications.createdAt)): every order the database may
\* return the selected rows in.
getUserNotifications(userId, unreadOnly) ==
  LET q == UserNotificationsQuery(userId, unreadOnly)
      ids == {k \in DOMAIN notifications : Holds(notifications[k], q.where)}
      n == Cardinality(ids)
  IN {[a \in 1..n |-> notifications[o[a]]] :
        o \in {o \in [1..n -> ids] :
                 /\ \A a, b \in 1..n : a # b => o[a] # o[b]
                 /\ \A a, b \in 1..n : a < b =>
                      notifications[o[a]].createdAt >= notifications[o[b]].createdAt}}

GetUserNotifications(userId, unreadOnly) ==
  /\ AllIdle /\ query = NoQuery
  /\ \E result \in getUserNotifications(userId, unreadOnly) :
       query' = [op |-> "getUserNotifications", userId |-> userId,
                 unreadOnly |-> unreadOnly, result |-> result]
  /\ UNCHANGED <<firs, statusUpdates, now, req, overlap, extraction,
               notifications, mem, chat>>

NotificationsDone ==
  /\ query.op = "getUserNotifications"
  /\ query' = NoQuery
  /\ UNCHANGED <<firs, statusUpdates, now, req, overlap, extraction,
               notifications, mem, chat>>

NextNotifications ==
  \/ Tick
  \/ \E userId \in Users : CreateNotification(userId)
  \/ \E id \in 1..MaxNotifications : MarkNotificationAsRead(id)
  \/ \E userId \in Users : MarkAllNotificationsAsRead(userId)
  \/ \E userId \in Users, unreadOnly \in BOOLEAN :
        GetUserNotifications(userId, unreadOnly)
  \/ NotificationsDone

SpecNotifications == InitSeq /\ [][NextNotifications]_vars

\* ------------------------------------------- MemStorage and DatabaseStorage
\* One caller drives both stores with the same calls, one call at a time,
\* each call running to its end on both.  mem is the MemStorage instance:
\* its two maps in insertion order and its id counters.

\* What a call gave its caller: a FIR (its firId and status), undefined, or
\* a rejected promise.
Returned(fir) == [kind |-> "fir", firId |-> fir.firId, status |-> fir.status]

Undefined == [kind |-> "undefined", firId |-> NoFirId, status |-> Unset]

Rejected == [kind |-> "rejected", firId |-> NoFirId, status |-> Unset]

\* this.firs.get(firId)
MemRows(f) == {i \in DOMAIN mem.firs : mem.firs[i].firId = f}

MemGetFir(f) ==
  IF MemRows(f) = {} THEN Undefined
  ELSE Returned(mem.firs[CHOOSE i \in MemRows(f) : TRUE])

\* this.firs.set(firId, fir): a new key goes to the end, an existing key
\* keeps its place and gets the new value.
MemSet(f, fir) ==
  IF MemRows(f) = {} THEN Append(mem.firs, fir)
  ELSE [i \in DOMAIN mem.firs |-> IF mem.firs[i].firId = f THEN fir ELSE mem.firs[i]]

\* MemStorage.createStatusUpdate: id from the counter, timestamp new Date().
MemStatusUpdate(f, s) ==
  [id |-> mem.statusUpdateCurrentId, firId |-> f, status |-> s, timestamp |-> now]

\* MemStorage.getStatusUpdates: filter, then a stable sort by timestamp; the
\* map is in insertion order and time does not run backwards, so the result
\* is the insertion order.
MemGetStatusUpdates(f) ==
  LET ks == {k \in DOMAIN mem.statusUpdates : mem.statusUpdates[k].firId = f}
      n == Cardinality(ks)
      nth == [a \in 1..n |->
                CHOOSE k \in ks : Cardinality({j \in ks : j < k}) = a - 1]
  IN [a \in 1..n |-> mem.statusUpdates[nth[a]].status]

\* DatabaseStorage.getFir as the caller sees it.
DbGetFir(f) == IF FirRows(f) = {} THEN Undefined ELSE Returned(getFir(f))

\* The statuses of a result of DatabaseStorage.getStatusUpdates.
StatusesOf(history) == [a \in DOMAIN history |-> history[a].status]

\* createFir on both stores.  DatabaseStorage: INSERT (rejected by the unique
\* fir_id) with the status defaulted, then the initial status update.
\* MemStorage: {...insertFir, id, createdAt} set under firId, then the
\* initial status update.
CallCreateFir(f, s) ==
  /\ AllIdle /\ query = NoQuery
  /\ Len(mem.statusUpdates) < MaxUpdates
  /\ MemRows(f) = {} => Len(mem.firs) < MaxFirs
  /\ FirRows(f) = {} => (Len(firs) < MaxFirs /\ Room(1))
  /\ LET row == [firId |-> f, status |-> DefaultStatus(s),
                 createdAt |-> now, closedAt |-> NoTime]
         fir == [id |-> mem.firCurrentId, firId |-> f, status |-> s,
                 createdAt |-> now]
     IN /\ IF FirRows(f) # {}
           THEN UNCHANGED <<firs, statusUpdates>>
           ELSE /\ firs' = Append(firs, row)
                /\ statusUpdates' = Append(statusUpdates, StatusRow(f, "REGISTERED"))
        /\ mem' = [firs |-> MemSet(f, fir),
                   statusUpdates |-> Append(mem.statusUpdates,
                                            MemStatusUpdate(f, "REGISTERED")),
                   firCurrentId |-> mem.firCurrentId + 1,
                   statusUpdateCurrentId |-> mem.statusUpdateCurrentId + 1]
        /\ query' = [op |-> "createFir", firId |-> f,
                     db |-> IF FirRows(f) # {} THEN Rejected ELSE Returned(row),
                     mem |-> Returned(fir),
                     dbHistory |-> << >>, memHistory |-> << >>]
  /\ UNCHANGED <<now, req, overlap, extraction, notifications, chat>>

\* updateFirStatus on both stores.  DatabaseStorage: the UPDATE and, when it
\* matched a row, a status update.  MemStorage: the FIR with the new status
\* set under firId, and nothing else.
CallUpdateFirStatus(f, s) ==
  /\ AllIdle /\ query = NoQuery
  /\ FirRows(f) # {} => Room(1)
  /\ LET i == CHOOSE j \in FirRows(f) : TRUE
         row == UpdatedStatusRow(firs[i], s)
         k == CHOOSE j \in MemRows(f) : TRUE
         updatedFir == [mem.firs[k] EXCEPT !.status = s]
     IN /\ IF FirRows(f) = {}
           THEN UNCHANGED <<firs, statusUpdates>>
           ELSE /\ firs' = [firs EXCEPT ![i] = row]
                /\ statusUpdates' = Append(statusUpdates, StatusRow(f, s))
        /\ mem' = IF MemRows(f) = {} THEN mem
                  ELSE [mem EXCEPT !.firs = MemSet(f, updatedFir)]
        /\ query' = [op |-> "updateFirStatus", firId |-> f,
                     db |-> IF FirRows(f) = {} THEN Undefined ELSE Returned(row),
                     mem |-> IF MemRows(f) = {} THEN Undefined ELSE Returned(updatedFir),
                     dbHistory |-> << >>, memHistory |-> << >>]
  /\ UNCHANGED <<now, req, overlap, extraction, notifications, chat>>

\* getFir on both stores.
CallGetFir(f) ==
  /\ AllIdle /\ query = NoQuery
  /\ query' = [op |-> "getFir", firId |-> f,
               db |-> DbGetFir(f), mem |-> MemGetFir(f),
               dbHistory |-> << >>, memHistory |-> << >>]
  /\ UNCHANGED <<firs, statusUpdates, now, req, overlap, extraction,
               notifications, mem, chat>>

\* getStatusUpdates on both stores; the database may return any order that
\* agrees with the timestamps.
CallGetStatusUpdates(f) ==
  /\ AllIdle /\ query = NoQuery
  /\ \E history \in getStatusUpdates(f) :
       query' = [op |-> "getStatusUpdates", firId |-> f,
                 db |-> Undefined, mem |-> Undefined,
                 dbHistory |-> StatusesOf(history),
                 memHistory |-> MemGetStatusUpdates(f)]
  /\ UNCHANGED <<firs, statusUpdates, now, req, overlap, extraction,
               notifications, mem, chat>>

StoreCalls == {"createFir", "updateFirStatus", "getFir", "getStatusUpdates"}

CallDone ==
  /\ query.op \in StoreCalls
  /\ query' = NoQuery
  /\ UNCHANGED <<firs, statusUpdates, now, req, overlap, extraction,
               notifications, mem, chat>>

NextStores ==
  \/ Tick
  \/ \E f \in FirIds, s \in Statuses \cup {Unset} : CallCreateFir(f, s)
  \/ \E f \in FirIds, s \in Statuses : CallUpdateFirStatus(f, s)
  \/ \E f \in FirIds : CallGetFir(f)
  \/ \E f \in FirIds : CallGetStatusUpdates(f)
  \/ CallDone

SpecStores == InitSeq /\ [][NextStores]_vars

\* ------------------------------------------------------------ ChatInterface
\* chat.inFlight holds the requests the component awaits: the n-th request
\* sent has id n; an extraction's result is numbered after its request, and
\* a creation request carries the result it was made from.
MaxRequests == 3

\* handleInputChange with text that is not blank (the textarea is never
\* disabled).
TypeInput ==
  /\ ~chat.userInput
  /\ chat' = [chat EXCEPT !.userInput = TRUE]
  /\ UNCHANGED <<firs, statusUpdates, now, req, overlap, extraction, query,
               notifications, mem>>

\* The Clear button: disabled={isProcessing}.
ClearEnabled == ~chat.isProcessing

handleClear ==
  /\ ClearEnabled
  /\ chat.userInput
  /\ chat' = [chat EXCEPT !.userInput = FALSE]
  /\ UNCHANGED <<firs, statusUpdates, now, req, overlap, extraction, query,
               notifications, mem>>

\* handleSend up to its await: nothing for blank input; else the input is
\* cleared, isProcessing set and processCrimeDescription called.
handleSend ==
  /\ chat.userInput
  /\ chat.sent < MaxRequests
  /\ chat' = [chat EXCEPT !.userInput = FALSE,
                          !.isProcessing = TRUE,
                          !.sent = @ + 1,
                          !.inFlight = @ \cup {[id |-> chat.sent + 1,
                                                kind |-> "extract",
                                                response |-> 0]}]
  /\ UNCHANGED <<firs, statusUpdates, now, req, overlap, extraction, query,
               notifications, mem>>

\* The Send button: disabled={isProcessing || !userInput.trim()}.
SendEnabled == ~chat.isProcessing /\ chat.userInput

ClickSend == SendEnabled /\ handleSend

\* handleKeyDown: Ctrl+Enter in the textarea calls handleSend.
handleKeyDown == handleSend

\* The awaited processCrimeDescription settles: on success
\* setGeminiResponse(response); on failure the catch block; finally
\* setIsProcessing(false).
ExtractionSettles(r, ok) ==
  /\ r \in chat.inFlight /\ r.kind = "extract"
  /\ chat' = [chat EXCEPT !.inFlight = @ \ {r},
                          !.geminiResponse = IF ok THEN r.id ELSE @,
                          !.isProcessing = FALSE]
  /\ UNCHANGED <<firs, statusUpdates, now, req, overlap, extraction, query,
               notifications, mem>>

\* {geminiResponse && !isProcessing && (<Button onClick={handleGenerateFIR}>)}
GenerateOffered == chat.geminiResponse # 0 /\ ~chat.isProcessing

\* handleGenerateFIR up to its await: createFir with the firId of the
\* current geminiResponse.
handleGenerateFIR ==
  /\ GenerateOffered
  /\ chat.sent < MaxRequests
  /\ chat' = [chat EXCEPT !.isProcessing = TRUE,
                          !.sent = @ + 1,
                          !.inFlight = @ \cup {[id |-> chat.sent + 1,
                                                kind |-> "create",
                                                response |-> chat.geminiResponse]}]
  /\ UNCHANGED <<firs, statusUpdates, now, req, overlap, extraction, query,
               notifications, mem>>

\* The awaited createFir settles.  The server creates the FIR unless the
\* request fails; a firId that was already used is refused by the unique
\* fir_id.  On success setGeminiResponse(null); finally
\* setIsProcessing(false).
CreationSettles(r, ok) ==
  /\ r \in chat.inFlight /\ r.kind = "create"
  /\ ok => r.response \notin Range(chat.created)
  /\ chat' = [chat EXCEPT !.inFlight = @ \ {r},
                          !.geminiResponse = IF ok THEN 0 ELSE @,
                          !.created = IF ok THEN Append(@, r.response) ELSE @,
                          !.isProcessing = FALSE]
  /\ UNCHANGED <<firs, statusUpdates, now, req, overlap, extraction, query,
               notifications, mem>>

ChatRequests ==
  [id : 1..MaxRequests, kind : {"extract", "create"}, response : 0..MaxRequests]

NextChat ==
  \/ TypeInput
  \/ handleClear
  \/ ClickSend
  \/ handleKeyDown
  \/ handleGenerateFIR
  \/ \E r \in ChatRequests, ok \in BOOLEAN : ExtractionSettles(r, ok)
  \/ \E r \in ChatRequests, ok \in BOOLEAN : CreationSettles(r, ok)

SpecChat == InitSeq /\ [][NextChat]_vars

\* ------------------------------------------------------------------ routing
\* The /api/firs routes in the order registerRoutes registers them.  A path
\* is its sequence of segments; a pattern segment that starts with ":" is a
\* parameter.
RouteTable ==
  << [method |-> "GET",   pattern |-> <<"api", "firs">>,                              handler |-> "getAllFirs"],
     [method |-> "GET",   pattern |-> <<"api", "firs", ":firId">>,                    handler |-> "getFir"],
     [method |-> "POST",  pattern |-> <<"api", "firs">>,                              handler |-> "createFir"],
     [method |-> "PATCH", pattern |-> <<"api", "firs", ":firId", "status">>,          handler |-> "updateFirStatus"],
     [method |-> "GET",   pattern |-> <<"api", "firs", ":firId", "status-updates">>,  handler |-> "getStatusUpdates"],
     [method |-> "POST",  pattern |-> <<"api", "firs", ":firId", "status-updates">>,  handler |-> "createStatusUpdate"],
     [method |-> "GET",   pattern |-> <<"api", "firs", ":firId", "pdf">>,             handler |-> "pdf"],
     [method |-> "GET",   pattern |-> <<"api", "firs", "search">>,                    handler |-> "searchFirs"],
     [method |-> "GET",   pattern |-> <<"api", "firs", "user", ":userId">>,           handler |-> "getFirsByUser"],
     [method |-> "GET",   pattern |-> <<"api", "firs", "officer", ":officerId">>,     handler |-> "getFirsByOfficer"],
     [method |-> "PATCH", pattern |-> <<"api", "firs", ":firId">>,                    handler |-> "updateFir"],
     [method |-> "POST",  pattern |-> <<"api", "firs", ":firId", "evidence">>,        handler |-> "createEvidence"],
     [method |-> "GET",   pattern |-> <<"api", "firs", ":firId", "evidence">>,        handler |-> "getEvidence"] >>

IsParam(segment) == SubSeq(segment, 1, 1) = ":"

\* A layer matches a request of its method whose path has the pattern's
\* length and agrees with it on every segment that is not a parameter.
LayerMatches(layer, method, path) ==
  /\ layer.method = method
  /\ Len(layer.pattern) = Len(path)
  /\ \A k \in DOMAIN path :
       IsParam(layer.pattern[k]) \/ layer.pattern[k] = path[k]

\* The router runs the first matching layer in registration order; none of
\* the handlers calls next(), so no later layer sees the request.
Dispatch(method, path) ==
  LET hits == {n \in DOMAIN RouteTable : LayerMatches(RouteTable[n], method, path)} IN
    IF hits = {} THEN "none" ELSE RouteTable[Min(hits)].handler

\* The handler of GET /api/firs/:firId: 404 unless getFir finds the FIR.
GetFirReply(firId) ==
  IF \E i \in DOMAIN firs : firs[i].firId = firId
  THEN [status |-> 200, message |-> ""]
  ELSE [status |-> 404, message |-> "FIR not found"]

Methods == {"GET", "POST", "PATCH"}

ThirdSegments == {"search", "user", "officer", "F1", "F2"}

FourthSegments == {"status", "status-updates", "pdf", "evidence", "1"}

Paths ==
  {<<"api", "firs">>}
    \cup {<<"api", "firs", a>> : a \in ThirdSegments}
    \cup {<<"api", "firs", a, b>> : a \in ThirdSegments, b \in FourthSegments}

\* A request reaches the router.
Request(method, path) ==
  /\ AllIdle /\ query = NoQuery
  /\ LET handler == Dispatch(method, path) IN
       query' = [op |-> "request", method |-> method, path |-> path,
                 handler |-> handler,
                 reply |-> IF handler = "getFir" THEN GetFirReply(path[3])
                           ELSE NoReply]
  /\ UNCHANGED <<firs, statusUpdates, now, req, overlap, extraction,
               notifications, mem, chat>>

RequestDone ==
  /\ query.op = "request"
  /\ query' = NoQuery
  /\ UNCHANGED <<firs, statusUpdates, now, req, overlap, extraction,
               notifications, mem, chat>>

NextRouting ==
  \/ \E method \in Methods, path \in Paths : Request(method, path)
  \/ RequestDone

\* The router over every table of up to MaxRows FIRs.
SpecRouting == InitQuery /\ [][NextRouting]_vars

\* ------------------------------------------------------------------ claims
Replied(p, route, cause) ==
  req[p].pc = "replied" /\ req[p].route = route /\ req[p].cause = cause

\* The slot's handler sends its reply in this step.
Replies(p) == req[p].pc \notin {"idle", "replied"} /\ req'[p].pc = "replied"

\* C1: whenever no request is in flight, every FIR in the store has a
\* non-empty getStatusUpdates result whose first entry is REGISTERED, for
\* every order the query may return.
C1_HistoryStartsRegistered ==
  AllIdle =>
    \A i \in DOMAIN firs : \A r \in getStatusUpdates(firs[i].firId) :
      Len(r) > 0 /\ r[1].status = "REGISTERED"

\* C2: for every FIR, closedAt is non-null exactly when status is CLOSED.
C2_ClosedAtIffClosed ==
  \A i \in DOMAIN firs : (firs[i].closedAt # NoTime) <=> (firs[i].status = "CLOSED")

\* C3: in no state, a request in flight or failed included, does the store
\* hold a FIR without a REGISTERED status update of its own.
C3_NoFirWithoutGenesis ==
  \A i \in DOMAIN firs :
    \E k \in UpdateIds(firs[i].firId) : statusUpdates[k].status = "REGISTERED"

\* C4: when PATCH .../status ends after its UPDATE ran, either the FIR has
\* the new status and a status update with it was appended, or the FIR's
\* status and closedAt are what they were before the call and nothing was
\* appended.
C4_UpdateFirStatusAllOrNothing ==
  [][\A p \in Slots :
       (req[p].pc = "updateFirStatus_append"
          /\ req[p].route = "PATCH /api/firs/:firId/status"
          /\ req'[p].pc = "replied")
       => \/ /\ firs'[req[p].row].status = req[p].status
             /\ statusUpdates' = Append(statusUpdates, StatusRow(req[p].ret.firId, req[p].status))
          \/ /\ firs'[req[p].row].status = req[p].before.status
             /\ firs'[req[p].row].closedAt = req[p].before.closedAt
             /\ statusUpdates' = statusUpdates]_vars

\* C5: a call that succeeds and leaves the FIR with a status other than the
\* one it had (or creates the FIR) adds exactly one status update for it.
C5_OneUpdatePerTransition ==
  [][\A p \in Slots :
       (Replies(p) /\ req'[p].cause = "ok" /\ req[p].row \in DOMAIN firs')
       => LET fir == firs'[req[p].row] IN
            (req[p].before = NoFir \/ fir.status # req[p].before.status)
              => Cardinality({k \in DOMAIN statusUpdates' :
                                statusUpdates'[k].firId = fir.firId})
                   = req[p].rowsBefore + 1]_vars

\* C6: POST /api/firs with a case identifier already in use leaves both
\* tables unchanged and replies with something other than the handler's
\* generic failure reply.
C6_ConflictIsDistinct ==
  [][\A p \in Slots :
       (req[p].pc = "idle" /\ req'[p].cause = "conflict")
       => /\ UNCHANGED <<firs, statusUpdates>>
          /\ req'[p].reply # CatchReply("POST /api/firs")]_vars

\* C7: every result of getStatusUpdates lists the rows in the order they
\* were appended (ascending serial id), equal timestamps included.
C7_AppendOrder ==
  \A f \in FirIds : \A r \in getStatusUpdates(f) :
    \A a, b \in 1..Len(r) : a < b => r[a].id < r[b].id

C9_ClosedAtSetOnce ==
  [][\A i \in DOMAIN firs :
       firs[i].closedAt # NoTime => firs'[i].closedAt = firs[i].closedAt]_vars

\* C10: no step changes the firId or the createdAt of an existing FIR.
C10_IdentityImmutable ==
  [][\A i \in DOMAIN firs :
       /\ firs'[i].firId = firs[i].firId
       /\ firs'[i].createdAt = firs[i].createdAt]_vars

\* generateContent calls made so far for the request.
NumCalls(events) == Cardinality({i \in DOMAIN events : events[i] = "call"})

\* C11: a request that enters the pipeline has made at least one call to the
\* external model when it is answered, no request ever makes more than
\* MaxAttempts calls, and once a response has validated no further call is
\* made.
C11_CallsBounded ==
  [][/\ NumCalls(extraction'.events) <= MaxAttempts
     /\ (extraction.pc # "replied" /\ extraction'.pc = "replied"
           /\ extraction'.reply.status # 400)
        => NumCalls(extraction'.events) >= 1
     /\ extraction.response # NoResponse
        => NumCalls(extraction'.events) <= NumCalls(extraction.events)]_vars

C11_Witness ==
  /\ extraction.pc = "replied"
  /\ extraction.reply.status = 200
  /\ NumCalls(extraction.events) = MaxAttempts

\* C12: an answered extraction request is either a failure reply with no
\* body (no firId, no fields), sent when no attempt validated, or a success
\* reply whose body is the validated response plus a firId; and the request
\* has created no FIR.
C12_FailureOrComplete ==
  extraction.pc = "replied" =>
    /\ firs = << >> /\ statusUpdates = << >>
    /\ (extraction.reply.status = 200) <=> (extraction.response # NoResponse)
    /\ extraction.reply.status = 200
       => /\ geminiResponseSchema(extraction.body.fields)
          /\ extraction.body.fields = extraction.response
          /\ extraction.body.firId # NoFirId
    /\ extraction.reply.status # 200 => extraction.body = NoBody

C12_Witness ==
  /\ extraction.pc = "replied"
  /\ extraction.reply.status = 500
  /\ NumCalls(extraction.events) = MaxAttempts

\* C13: between any two consecutive calls of one request the one-second
\* delay was taken.
C13_DelayBetweenAttempts ==
  \A i \in 1..(Len(extraction.events) - 1) :
    ~(extraction.events[i] = "call" /\ extraction.events[i + 1] = "call")

\* C14: every success reply carries string crime and summary, a non-empty
\* ipcSections list of strings and an integer priority from 1 to 5.
C14_SuccessSatisfiesSchema ==
  (extraction.pc = "replied" /\ extraction.reply.status = 200) =>
    LET r == extraction.body.fields IN
      /\ r.crime = "string" /\ r.summary = "string"
      /\ r.ipcSections.type = "array"
      /\ Len(r.ipcSections.items) > 0
      /\ \A i \in DOMAIN r.ipcSections.items : r.ipcSections.items[i] = "string"
      /\ r.priority.type = "number"
      /\ r.priority.halves \in {2 * n : n \in 1..5}

Searched == query.op = "searchFirs"

NoPredicates(params) ==
  /\ params.status.kind = "none" /\ Len(params.tags) = 0
  /\ params.startDate = NoTime /\ params.endDate = NoTime

\* C15: the total of a searchFirs call without predicates equals
\* getFirCount() of the store state it ran against.
C15_TotalIsFirCount ==
  (Searched /\ NoPredicates(query.params)) => query.total = getFirCount

C15_Witness ==
  Searched /\ NoPredicates(query.params) /\ query.total = MaxRows

\* What the predicates ask for: status among the given ones, created in the
\* date range, at least one tag in common with the given tags.
Meets(row, params) ==
  /\ params.status.kind # "none" => row.status \in Range(params.status.values)
  /\ params.startDate # NoTime => row.createdAt >= params.startDate
  /\ params.endDate # NoTime => row.createdAt <= params.endDate
  /\ Len(params.tags) > 0 => row.tags \cap Range(params.tags) # {}

\* C16: for every page and limit, the total of a searchFirs call is the
\* number of FIRs that meet all predicates, and the page holds at most limit
\* FIRs, each meeting all predicates.
C16_TotalAndPage ==
  Searched =>
    /\ query.total = Cardinality({i \in DOMAIN firs : Meets(firs[i], query.params)})
    /\ Len(query.firs) <= query.params.limit
    /\ \A k \in DOMAIN query.firs : Meets(query.firs[k], query.params)

\* C17: a searchFirs call with a status array returns only FIRs whose status
\* is in the array; and when PATCH .../status has written status s to a FIR,
\* a search by [s] matches that FIR.
C17_StatusArrayRoundTrip ==
  /\ (Searched /\ query.params.status.kind = "array")
     => \A k \in DOMAIN query.firs :
          query.firs[k].status \in Range(query.params.status.values)
  /\ \A p \in Slots :
       Replied(p, "PATCH /api/firs/:firId/status", "ok")
       => LET params == [status |-> [kind |-> "array", values |-> <<req[p].status>>],
                         tags |-> << >>, startDate |-> NoTime, endDate |-> NoTime,
                         page |-> 1, limit |-> MaxLimit] IN
            \E i \in Matches(params) : firs[i].firId = req[p].firId

C17_Witness ==
  \E p \in Slots :
    /\ Replied(p, "PATCH /api/firs/:firId/status", "ok")
    /\ req[p].status = "CLOSED"
    /\ getFir(req[p].firId).status = "CLOSED"

\* C18: a searchFirs call with only a tags predicate counts exactly the FIRs
\* that have at least one of the given tags, for one tag and for several.
C18_TagOverlap ==
  (Searched /\ Len(query.params.tags) > 0 /\ query.params.status.kind = "none"
     /\ query.params.startDate = NoTime /\ query.params.endDate = NoTime)
  => query.total =
       Cardinality({i \in DOMAIN firs : firs[i].tags \cap Range(query.params.tags) # {}})

RECURSIVE SumCounts(_, _)
SumCounts(result, n) ==
  IF n = 0 THEN 0 ELSE result[n].count + SumCounts(result, n - 1)

\* C19: getMonthlyStats(year) returns 12 entries, months 1 to 12 in order,
\* whose counts add up to the number of FIRs created in that year.
C19_MonthlyStatsCoverYear ==
  query.op = "getMonthlyStats" =>
    /\ Len(query.result) = 12
    /\ \A m \in 1..12 : query.result[m].month = m
    /\ SumCounts(query.result, 12) =
         Cardinality({i \in DOMAIN firs :
            /\ firs[i].createdAt >= MonthStart(query.year, 0)
            /\ firs[i].createdAt < MonthStart(query.year + 1, 0)})

\* C20: getAnalyticsByTimeRange over a window with no FIR that is CLOSED
\* with a closedAt returns averageProcessingTimeDays 0.
C20_NoClosedAverageZero ==
  (query.op = "getAnalyticsByTimeRange"
     /\ ~\E i \in DOMAIN firs :
          /\ InWindow(firs[i], query.window.startDate, query.window.endDate)
          /\ firs[i].status = "CLOSED" /\ firs[i].closedAt # NoTime)
  => query.averageProcessingTimeDays = Zero

\* The window holds a FIR that was closed and moved to another status.
C20_Witness ==
  /\ query.op = "getAnalyticsByTimeRange"
  /\ query.averageProcessingTimeDays = Zero
  /\ \E i \in DOMAIN firs :
       /\ InWindow(firs[i], query.window.startDate, query.window.endDate)
       /\ firs[i].status = "REGISTERED" /\ firs[i].closedAt # NoTime
  /\ ~\E i \in DOMAIN firs :
        /\ InWindow(firs[i], query.window.startDate, query.window.endDate)
        /\ firs[i].status = "CLOSED"

\* C21: every id generateFirId returns is "FIR-", eight decimal digits, "-"
\* and three decimal digits, and the three digits are a number from 100 to
\* 999 (the first of them is not 0).
DigitChars == {Digit(d) : d \in 0..9}

AllDigits(str) == \A i \in 1..Len(str) : SubSeq(str, i, i) \in DigitChars

C21_FirIdShape ==
  query.op = "generateFirId" =>
    /\ Len(query.firId) = 16
    /\ SubSeq(query.firId, 1, 4) = "FIR-"
    /\ AllDigits(SubSeq(query.firId, 5, 12))
    /\ SubSeq(query.firId, 13, 13) = "-"
    /\ AllDigits(SubSeq(query.firId, 14, 16))
    /\ SubSeq(query.firId, 14, 14) # "0"

C21_Witness ==
  /\ query.op = "generateFirId"
  /\ SubSeq(query.firId, 5, 16) = "20240105-999"

\* C22: status transitions are unconstrained.  Whenever a request can be
\* taken, PATCH /api/firs/:firId/status by any caller for any existing FIR,
\* whatever its status, with any status can run its UPDATE, and the UPDATE makes that
\* status the FIR's status; and a reply of the route that is neither the
\* 400 for a missing status, the 404 for an unknown FIR nor the 500 for a
\* failed statement is a 200 with the FIR in the requested status.
C22_AnyTransition ==
  /\ \A p \in Slots, caller \in AnyCaller, f \in FirIds, s \in Statuses :
       (CanStart(p) /\ FirRows(f) # {} /\ Room(1)) =>
         ENABLED (/\ PatchStatus(p, caller, f, s)
                  /\ req'[p].pc = "updateFirStatus_append"
                  /\ \A i \in DOMAIN firs' :
                       firs'[i].firId = f => firs'[i].status = s)
  /\ \A p \in Slots :
       (req[p].pc = "replied" /\ req[p].route = "PATCH /api/firs/:firId/status"
          /\ req[p].cause \notin {"invalid", "notFound", "storeFailure"}) =>
         /\ req[p].reply.status = 200
         /\ req[p].ret.status = req[p].status
         /\ getFir(req[p].firId).status = req[p].status

\* A closed FIR was moved back to REGISTERED and the reply was 200.
C22_Witness ==
  \E p \in Slots :
    /\ Replied(p, "PATCH /api/firs/:firId/status", "ok")
    /\ req[p].status = "REGISTERED"
    /\ req[p].ret.closedAt # NoTime
    /\ getFir(req[p].firId).status = "REGISTERED"

\* C23: the substring handed to JSON.parse is the first balanced {...} block
\* of the response text: when the text holds a complete object, what is
\* parsed is that object alone, whatever follows it.
FirstBalanced(text) ==
  LET start == Min(Opens(text))
      ends == {j \in Closes(text) :
                 /\ j > start
                 /\ Depth(text, j) = Depth(text, start - 1)}
  IN IF Opens(text) = {} \/ ends = {} THEN NoMatch
     ELSE SubSeq(text, start, Min(ends))

C23_FirstBalancedBlock ==
  (query.op = "match" /\ FirstBalanced(query.responseText) # NoMatch) =>
    /\ query.jsonMatch = FirstBalanced(query.responseText)
    /\ query.parsed

\* C24: getUserNotifications(userId, true) returns only notifications of
\* userId that are unread: never one of another user, never a read one.
C24_OwnUnreadOnly ==
  (query.op = "getUserNotifications" /\ query.unreadOnly) =>
    \A k \in DOMAIN query.result :
      /\ query.result[k].userId = query.userId
      /\ ~query.result[k].isRead

\* C25: the stored fields of an existing FIR, status included, change only
\* in a step of a request made by its reporter or an admin; no request of
\* an anonymous caller or of another civilian changes an existing FIR.
Acting(p) == IF req[p].pc = "idle" THEN req'[p].caller ELSE req[p].caller

C25_OnlyOwnerOrAdminChanges ==
  [][\A i \in DOMAIN firs :
       (i \in DOMAIN firs' /\ firs'[i] # firs[i]) =>
         \E p \in Slots : /\ req'[p] # req[p]
                          /\ Acting(p) \in {Reporter, Admin}]_vars

\* C26: whenever no request is in progress, the status of every FIR is the
\* status of the last entry of its history, whichever of its possible
\* results getStatusUpdates returns.
C26_StatusIsLastEntry ==
  AllIdle =>
    \A i \in DOMAIN firs :
      \A history \in getStatusUpdates(firs[i].firId) :
        /\ Len(history) > 0
        /\ history[Len(history)].status = firs[i].status

\* C27: every status update refers to an existing FIR, and a request of the
\* status routes for a firId that matches no FIR is answered not-found in a
\* step that leaves both tables unchanged; no such request gets as far as
\* a statement that writes.
StatusRoutes == {"PATCH /api/firs/:firId/status",
                 "POST /api/firs/:firId/status-updates"}

C27_NoOrphanStatusUpdate ==
  /\ [](\A k \in DOMAIN statusUpdates :
          \E i \in DOMAIN firs : firs[i].firId = statusUpdates[k].firId)
  /\ [](\A p \in Slots :
          (req[p].route \in StatusRoutes /\ req[p].pc \notin {"idle", "replied"}) =>
            req[p].before # NoFir)
  /\ [][\A p \in Slots :
          (req[p].pc # "replied" /\ req'[p].pc = "replied"
             /\ req'[p].route \in StatusRoutes /\ req'[p].cause = "notFound") =>
            /\ UNCHANGED <<firs, statusUpdates>>
            /\ \E f \in FirIds : FirRows(f) = {}]_vars

\* A status request for an unknown FIR was answered 404 while another FIR
\* and its history are stored.
C27_Witness ==
  \E p \in Slots :
    /\ req[p].pc = "replied" /\ req[p].route \in StatusRoutes
    /\ req[p].cause = "notFound" /\ req[p].reply.status = 404
    /\ Len(firs) = 1 /\ Len(statusUpdates) > 0

\* C28: GET /api/firs/search is handled by the search handler, not by the
\* handler of GET /api/firs/:firId with firId = "search".
C28_SearchReachesSearchHandler ==
  (query.op = "request" /\ query.method = "GET"
     /\ query.path = <<"api", "firs", "search">>) =>
    query.handler = "searchFirs"

\* C29: MemStorage and DatabaseStorage are interchangeable: after the same
\* sequence of createFir, updateFirStatus, getFir and getStatusUpdates calls
\* every call gives the same outcome on both (the same FIR, undefined or
\* rejection) and getStatusUpdates the same history.
C29_StoresInterchangeable ==
  query.op \in StoreCalls =>
    /\ query.db = query.mem
    /\ query.dbHistory = query.memHistory

\* C30: the chat interface has at most one extraction or FIR-creation
\* request in flight; isProcessing is true while a request is in flight;
\* the Generate FIR button is not offered while a request is outstanding;
\* and no extraction result has more than one FIR created from it.
C30_OneRequestAtATime ==
  /\ Cardinality(chat.inFlight) <= 1
  /\ chat.inFlight # {} => chat.isProcessing
  /\ GenerateOffered => chat.inFlight = {}
  /\ \A a, b \in DOMAIN chat.created :
       a # b => chat.created[a] # chat.created[b]

====
